---- MODULE Spec2Model ----
(***************************************************************************)
(* Model of the Discord role ping counter bot (src/main.py): the CSV file   *)
(* role_pings.csv and the functions that create, append to, read, rewrite, *)
(* prune and query it; the message ledger activity_messages.csv, the event *)
(* handlers that write both, and the statistics commands that read them;   *)
(* the per-guild spoiler reaction stores and their ranking; and the wall   *)
(* clock the timestamps are taken from.                                    *)
(*                                                                         *)
(* Spec is the role-ping ledger under its own functions, SpecHandlers the  *)
(* event handlers and the retention runs, SpecReactions the reaction       *)
(* stores, their reset, cleanup and reactionstats, SpecActivity the        *)
(* activity statistics, and SpecLoop the event loop with the handlers that *)
(* rewrite the ledger split at their read and their write.                 *)
(*                                                                         *)
(* The file is modelled at the level of CSV fields: a header line (a       *)
(* sequence of field names) and data lines (sequences of field values).    *)
(* Identifier fields are strings; the timestamp field is the ISO-8601 text *)
(* represented by what datetime.fromisoformat makes of it: whether it      *)
(* parses, whether it carries a UTC offset, its local time and its offset. *)
(* Time is counted in hours relative to the start of the process.          *)
(***************************************************************************)
EXTENDS Integers, Sequences, FiniteSets, TLC

VARIABLES csv, now, lastOp, ret, hist, act, rx, cfg, guild

vars == <<csv, now, lastOp, ret, hist, act, rx, cfg, guild>>

(***************************************************************************)
(* Program constants and bounds                                            *)
(***************************************************************************)
CLEANUP_DAYS == 30

HoursPerDay == 24

DefaultLimit == 10

MaxRows == 3

MaxExtraHours == 1

MaxLegacy == 2

MaxActivity == 2

MaxReactions == 3

StatsTop == 10

ShortWindow == 7

LongWindow == 30

HeatmapTop == 15

UserTop == 15

\* datetime.min, in hours before the start of the process
DatetimeMin == 0 - 20000000

\* the (guild, role, user, channel) of the pings that arrive: two users on one
\* role, one user on two roles, and the same role and user in a second guild
Pings == {<<1, 10, 100, 7>>, <<1, 10, 200, 7>>, <<1, 20, 100, 7>>,
          <<2, 10, 100, 7>>}

\* the (guild, role) and (guild, user) pairs queried and reset
RolePairs == {<<p[1], p[2]>> : p \in Pings}

UserPairs == {<<p[1], p[3]>> : p \in Pings}

DaysArgs == {CLEANUP_DAYS, 1}

Limits == {1, DefaultLimit}

ClockSteps == {1}

(***************************************************************************)
(* Conversions                                                             *)
(***************************************************************************)
\* str(x) of an integer identifier, as csv.writer and the queries apply it
str(x) == ToString(x)

\* datetime.now(timezone.utc).isoformat(): an aware text with offset +00:00
isoformat(t) == [valid |-> TRUE, aware |-> TRUE, local |-> t, off |-> 0]

\* a timestamp text datetime.fromisoformat rejects
BadStamp == [valid |-> FALSE, aware |-> FALSE, local |-> 0, off |-> 0]

\* an ISO text without offset, local time t (old data)
NaiveStamp(t) == [valid |-> TRUE, aware |-> FALSE, local |-> t, off |-> 0]

\* an ISO text with a UTC offset of o hours, local time t
OffsetStamp(t, o) == [valid |-> TRUE, aware |-> TRUE, local |-> t, off |-> o]

\* does datetime.fromisoformat(text) return (TRUE) or raise (FALSE)
Parses(text) == text.valid

\* the instant an aware datetime compares by: local time minus its offset
Instant(text) == text.local - text.off

\* the fixed header of role_pings.csv
Header == <<"guild_id", "role_id", "user_id", "channel_id", "timestamp">>

Range(s) == {s[i] : i \in 1..Len(s)}

IndexOf(s, k) == CHOOSE i \in 1..Len(s) : s[i] = k

(***************************************************************************)
(* The file and the functions over it                                      *)
(***************************************************************************)
AbsentFile == [exists |-> FALSE, header |-> <<>>, data |-> <<>>]

EmptyFile == [exists |-> TRUE, header |-> <<>>, data |-> <<>>]

HeaderOnlyFile == [exists |-> TRUE, header |-> Header, data |-> <<>>]

\* os.path.getsize(CSV_PATH) == 0
IsZeroLength(f) == f.header = <<>> /\ f.data = <<>>

\* variant: the header is written whether or not the file has content
ensure_csv_exists_Always(f) == HeaderOnlyFile

ensure_csv_exists(f) ==
    IF ~f.exists \/ IsZeroLength(f) THEN HeaderOnlyFile ELSE f

\* variant: the user is written before the role
PingLine_UserFirst(g, r, u, c, t) ==
    <<str(g), str(u), str(r), str(c), isoformat(t)>>

\* the line csv.writer appends for one ping at time t
PingLine(g, r, u, c, t) == <<str(g), str(r), str(u), str(c), isoformat(t)>>

\* variant: the file is opened for writing instead of appending
append_ping_Truncating(f, g, r, u, c, t) ==
    [exists |-> TRUE, header |-> <<>>, data |-> <<PingLine(g, r, u, c, t)>>]

append_ping(f, g, r, u, c, t) ==
    LET e == ensure_csv_exists(f)
    IN  [e EXCEPT !.data = Append(@, PingLine(g, r, u, c, t))]

\* csv.DictReader over an existing file: the first line names the fields
DictReader(f) ==
    [i \in 1..Len(f.data) |->
        [k \in Range(f.header) |-> f.data[i][IndexOf(f.header, k)]]]

\* the rows read_all_pings returns (the file it leaves is ensure_csv_exists(f))
read_all_pings(f) == DictReader(ensure_csv_exists(f))

\* csv.DictWriter with the fixed fieldnames: header, then one line per row
write_all_pings(rows) ==
    [exists |-> TRUE,
     header |-> Header,
     data   |-> [i \in 1..Len(rows) |->
                    [j \in 1..Len(Header) |-> rows[i][Header[j]]]]]

(***************************************************************************)
(* Retention: cleanup_old_entries                                          *)
(***************************************************************************)
\* cutoff = datetime.now(timezone.utc) - timedelta(days=days)
Cutoff(t, days) == t - days * HoursPerDay

\* variant: the offset of an aware timestamp is ignored
TsUtc_LocalOnly(text) == text.local

\* the parsed timestamp as an aware UTC instant: a naive one is taken as UTC
TsUtc(text) == IF text.aware THEN Instant(text) ELSE text.local

\* the row is appended to kept
IsKept(row, cutoff) ==
    Parses(row["timestamp"]) /\ TsUtc(row["timestamp"]) >= cutoff

\* variant: a row exactly at the cutoff is counted as removed
IsCounted_AtCutoff(row, cutoff) ==
    Parses(row["timestamp"]) /\ TsUtc(row["timestamp"]) <= cutoff

\* the row increments removed
IsCounted(row, cutoff) ==
    Parses(row["timestamp"]) /\ TsUtc(row["timestamp"]) < cutoff

KeptRows(rows, cutoff) == SelectSeq(rows, LAMBDA row : IsKept(row, cutoff))

RemovedCount(rows, cutoff) ==
    Cardinality({i \in 1..Len(rows) : IsCounted(rows[i], cutoff)})

\* variant: an existing file is rewritten whatever the number removed
cleanup_file_AlwaysRewrites(f, days, t) ==
    IF ~f.exists THEN f
    ELSE write_all_pings(KeptRows(DictReader(f), Cutoff(t, days)))

\* the file cleanup_old_entries(days) leaves when run at time t
cleanup_file(f, days, t) ==
    IF ~f.exists THEN f
    ELSE LET rows == DictReader(f)
             cutoff == Cutoff(t, days)
         IN  IF RemovedCount(rows, cutoff) = 0 THEN f
             ELSE write_all_pings(KeptRows(rows, cutoff))

\* the value of its local variable removed when it returns
cleanup_removed(f, days, t) ==
    IF ~f.exists THEN 0 ELSE RemovedCount(DictReader(f), Cutoff(t, days))

(***************************************************************************)
(* Queries: collections.Counter and most_common                            *)
(***************************************************************************)
RECURSIVE FirstSeen(_)
\* the keys of a Counter fed the sequence ks, in insertion order
FirstSeen(ks) ==
    IF ks = <<>> THEN <<>>
    ELSE LET front == FirstSeen(SubSeq(ks, 1, Len(ks) - 1))
             k == ks[Len(ks)]
         IN  IF k \in Range(front) THEN front ELSE Append(front, k)

Occurrences(ks, k) == Cardinality({i \in 1..Len(ks) : ks[i] = k})

\* Counter.items(): (key, count) pairs in insertion order
CounterItems(ks) ==
    LET keys == FirstSeen(ks)
    IN  [i \in 1..Len(keys) |-> <<keys[i], Occurrences(ks, keys[i])>>]

\* variant: p goes in front of the pairs with an equal count
InsertDesc_Unstable(sorted, p) ==
    LET k == Cardinality({i \in 1..Len(sorted) : sorted[i][2] > p[2]})
    IN  SubSeq(sorted, 1, k) \o <<p>> \o SubSeq(sorted, k + 1, Len(sorted))

\* insert p behind every pair whose count is not smaller (stable, descending)
InsertDesc(sorted, p) ==
    LET k == Cardinality({i \in 1..Len(sorted) : sorted[i][2] >= p[2]})
    IN  SubSeq(sorted, 1, k) \o <<p>> \o SubSeq(sorted, k + 1, Len(sorted))

RECURSIVE SortDesc(_)
\* sorted(items, key=count, reverse=True)
SortDesc(items) ==
    IF items = <<>> THEN <<>>
    ELSE InsertDesc(SortDesc(SubSeq(items, 1, Len(items) - 1)),
                    items[Len(items)])

\* Counter.most_common(): every pair
most_common_all(ks) == SortDesc(CounterItems(ks))

\* Counter.most_common(n) = heapq.nlargest(n, items, key=count)
most_common(ks, n) ==
    LET all == most_common_all(ks)
    IN  IF n <= 0 THEN <<>>
        ELSE SubSeq(all, 1, IF n < Len(all) THEN n ELSE Len(all))

\* the values of field pick of the rows, in row order
PickField(rows, pick) == [i \in 1..Len(rows) |-> rows[i][pick]]

\* the row filter of get_top_for_role
TopRowMatch(row, g, r) ==
    row["guild_id"] = str(g) /\ row["role_id"] = str(r)

\* variant: the guild is not compared
CountsRowMatch_AnyGuild(row, g, u) == row["user_id"] = str(u)

\* the row filter of get_counts_for_user
CountsRowMatch(row, g, u) ==
    row["guild_id"] = str(g) /\ row["user_id"] = str(u)

get_top_for_role(f, g, r, limit) ==
    most_common(PickField(SelectSeq(read_all_pings(f),
                                    LAMBDA row : TopRowMatch(row, g, r)),
                          "user_id"), limit)

get_counts_for_user(f, g, u) ==
    most_common_all(PickField(SelectSeq(read_all_pings(f),
                                        LAMBDA row : CountsRowMatch(row, g, u)),
                              "role_id"))

(***************************************************************************)
(* Resets                                                                  *)
(***************************************************************************)
\* variant: the guild is not compared
ResetRoleMatch_AnyGuild(row, g, r) == row["role_id"] = str(r)

\* the rows reset_role_counts leaves out
ResetRoleMatch(row, g, r) ==
    row["guild_id"] = str(g) /\ row["role_id"] = str(r)

\* variant: the guild is not compared
ResetUserMatch_AnyGuild(row, g, u) == row["user_id"] = str(u)

\* the rows reset_user_counts leaves out
ResetUserMatch(row, g, u) ==
    row["guild_id"] = str(g) /\ row["user_id"] = str(u)

reset_role_counts(f, g, r) ==
    write_all_pings(SelectSeq(read_all_pings(f),
                              LAMBDA row : ~ResetRoleMatch(row, g, r)))

reset_user_counts(f, g, u) ==
    write_all_pings(SelectSeq(read_all_pings(f),
                              LAMBDA row : ~ResetUserMatch(row, g, u)))

(***************************************************************************)
(* Ingestion: on_message and the message-activity ledger                   *)
(***************************************************************************)
\* message.guild of a direct message
NoGuild == 0

ActivityHeader == <<"guild_id", "user_id", "channel_id", "timestamp">>

\* the line csv.writer appends for one message at time t; its timestamp is
\* datetime.utcnow().isoformat(), a text without UTC offset
ActivityLine(g, u, c, t) == <<str(g), str(u), str(c), NaiveStamp(t)>>

\* activity_messages.csv after append_message_activity: the header is written
\* only when no file was there
append_message_activity(f, g, u, c, t) ==
    IF f.exists
    THEN [f EXCEPT !.data = Append(@, ActivityLine(g, u, c, t))]
    ELSE [exists |-> TRUE,
          header |-> ActivityHeader,
          data   |-> <<ActivityLine(g, u, c, t)>>]

\* variant: a bot's message in a guild is recorded too
IsIgnored_GuildOnly(m) == m.guild = NoGuild

\* on_message returns at once: the author is a bot or there is no guild
IsIgnored(m) == m.bot \/ m.guild = NoGuild

\* variant: every mentioned role is tracked
IsTracked_Always(role) == TRUE

\* the role mention is recorded: the role is mentionable
IsTracked(role) == role.mentionable

RECURSIVE append_role_mentions(_, _, _, _, _)
\* role_pings.csv after the loop over message.role_mentions; when the file
\* cannot be opened for writing append_ping catches both exceptions and the
\* file is left as it was
append_role_mentions(f, m, roles, t, fails) ==
    IF roles = <<>> THEN f
    ELSE LET role == Head(roles)
             g == IF ~IsTracked(role) \/ fails THEN f
                  ELSE append_ping(f, m.guild, role.id,
                                   m.author, m.channel, t)
         IN  append_role_mentions(g, m, Tail(roles), t, fails)

\* on_message raises: the message is not ignored and activity_messages.csv
\* cannot be opened for appending
on_message_raises(m, actFails) == ~IsIgnored(m) /\ actFails

\* activity_messages.csv after on_message
on_message_activity(f, m, t, actFails) ==
    IF IsIgnored(m) \/ actFails THEN f
    ELSE append_message_activity(f, m.guild, m.author, m.channel, t)

\* role_pings.csv after on_message
on_message_pings(f, m, t, actFails, csvFails) ==
    IF IsIgnored(m) \/ actFails THEN f
    ELSE append_role_mentions(f, m, m.role_mentions, t, csvFails)

\* the cleanup command's days = days or CLEANUP_DAYS
DaysOrDefault(days) == IF days = 0 THEN CLEANUP_DAYS ELSE days

(***************************************************************************)
(* Spoiler reactions: on_reaction_add and the per-guild reaction store     *)
(***************************************************************************)
\* text is held as the sequence of its pieces, so that a prefix and a
\* substring can be looked for
startswith(text, prefix) == Len(text) > 0 /\ text[1] = prefix

\* str(reaction.emoji): a unicode emoji is its own text, a custom emoji is
\* written <:name:id>
EmojiStr(e) ==
    IF e.id = 0 THEN e.name
    ELSE "<:" \o e.name \o ":" \o ToString(e.id) \o ">"

\* variant: only a spoiler attachment makes a spoiler
is_spoiler_AttachmentOnly(m) ==
    \E i \in 1..Len(m.attachments) : startswith(m.attachments[i], "SPOILER_")

is_spoiler(m) ==
    \/ \E i \in 1..Len(m.attachments) : startswith(m.attachments[i], "SPOILER_")
    \/ \E i \in 1..Len(m.content) : m.content[i] = "||"

\* on_reaction_add reaches record_reaction
IsRecorded(e) ==
    /\ ~e.bot
    /\ e.message.guild # NoGuild
    /\ is_spoiler(e.message)

\* data/reactions/stats/<guild>.json
AbsentStore == [exists |-> FALSE, reactions |-> <<>>]

ensure_reaction_json_exists(s) ==
    IF s.exists THEN s ELSE [exists |-> TRUE, reactions |-> <<>>]

\* the file load_reaction_stats leaves: created when it was not there
load_reaction_stats(s) ==
    IF s.exists THEN s ELSE [exists |-> TRUE, reactions |-> <<>>]

ReactionEntry(mid, uid, emoji, t) ==
    [message_id |-> str(mid), user_id |-> str(uid), emoji |-> emoji,
     timestamp |-> isoformat(t)]

\* the file record_reaction leaves: load, append, save
record_reaction(s, mid, uid, emoji, t) ==
    [load_reaction_stats(s) EXCEPT
        !.reactions = Append(@, ReactionEntry(mid, uid, emoji, t))]

\* the guild's store after on_reaction_add
on_reaction_add(s, e, t) ==
    IF IsRecorded(e)
    THEN record_reaction(s, e.message.id, e.user, EmojiStr(e.emoji), t)
    ELSE s

\* variant: the store is emptied only when it holds no reaction
reaction_reset_KeepsData(s) == IF s.reactions = <<>> THEN AbsentStore ELSE s

\* the guild's store after reaction_reset: the file is removed if it is there
reaction_reset(s) == IF s.exists THEN AbsentStore ELSE s

\* reaction_cleanup: the store it leaves, whether save_reaction_stats was
\* called, and the two numbers of its reply, before - after and after; an
\* entry whose timestamp is not ISO-8601 makes parse_timestamp_aware raise
\* before anything is saved or replied
reaction_cleanup(s, days, t) ==
    LET stats == load_reaction_stats(s).reactions
        kept == SelectSeq(stats,
                    LAMBDA r : TsUtc(r.timestamp) >= Cutoff(t, days))
    IN  IF \E i \in 1..Len(stats) : ~Parses(stats[i].timestamp)
        THEN [store |-> load_reaction_stats(s),
              saved |-> FALSE,
              raised |-> TRUE,
              reply |-> <<>>]
        ELSE [store |-> [exists |-> TRUE, reactions |-> kept],
              saved |-> TRUE,
              raised |-> FALSE,
              reply |-> <<Len(stats) - Len(kept), Len(kept)>>]

(***************************************************************************)
(* reactionstats: the accumulated role ranking                             *)
(***************************************************************************)
\* data/reactions/configs/<guild>.json
AbsentConfig == [exists |-> FALSE, rank_roles |-> <<>>]

\* load_reaction_config(guild_id).get("rank_roles", [])
load_reaction_config(c) == IF c.exists THEN c.rank_roles ELSE <<>>

\* the file reaction_set_roles leaves
reaction_set_roles(roles) ==
    [exists |-> TRUE, rank_roles |-> [i \in 1..Len(roles) |-> str(roles[i])]]

\* int(s) of an identifier written by str
int(s) ==
    CHOOSE n \in {1, 2, 7, 8, 9, 10, 20, 30, 100, 200, 900} : str(n) = s

\* guild.get_member(id) is not None
get_member(gd, uid) == uid \in Range(gd.members)

\* guild.get_role(id) is not None
get_role(gd, rid) == rid \in gd.roles

RECURSIVE add_to_roles(_, _, _, _, _)
\* the inner loop: for rid in rank_roles, role_totals[rid] += count
add_to_roles(totals, rids, uid, count, gd) ==
    IF rids = <<>> THEN totals
    ELSE LET rid == Head(rids)
             t2 == IF /\ get_role(gd, int(rid))
                      /\ int(rid) \in gd.member_roles[uid]
                   THEN [totals EXCEPT ![rid] = @ + count]
                   ELSE totals
         IN  add_to_roles(t2, Tail(rids), uid, count, gd)

RECURSIVE add_users(_, _, _, _)
\* the outer loop over user_reaction_count.items(): a user who is not a
\* member is skipped
add_users(totals, items, rids, gd) ==
    IF items = <<>> THEN totals
    ELSE LET uid == Head(items)[1]
             t2 == IF get_member(gd, int(uid))
                   THEN add_to_roles(totals, rids, int(uid), Head(items)[2], gd)
                   ELSE totals
         IN  add_users(t2, Tail(items), rids, gd)

\* role_totals after step (3)
role_totals(reactions, rank_roles, gd) ==
    add_users([rid \in Range(rank_roles) |-> 0],
              CounterItems(PickField(reactions, "user_id")),
              rank_roles, gd)

\* variant: the roles stay in the configured order
sorted_roles_Unsorted(reactions, rank_roles, gd) ==
    LET totals == role_totals(reactions, rank_roles, gd)
        keys == FirstSeen(rank_roles)
    IN  [i \in 1..Len(keys) |-> <<keys[i], totals[keys[i]]>>]

\* step (4): sorted(role_totals.items(), key=total, reverse=True)
sorted_roles(reactions, rank_roles, gd) ==
    LET totals == role_totals(reactions, rank_roles, gd)
        keys == FirstSeen(rank_roles)
    IN  SortDesc([i \in 1..Len(keys) |-> <<keys[i], totals[keys[i]]>>])

\* step (5): one field per role that still exists
ranking_fields(sorted, gd) ==
    SelectSeq(sorted, LAMBDA p : get_role(gd, int(p[1])))

\* what reactionstats sends: a plain message when nothing is stored, else
\* the top ten users and the role ranking
reactionstats(s, c, gd) ==
    LET reactions == load_reaction_stats(s).reactions
        rank_roles == load_reaction_config(c)
    IN  IF reactions = <<>>
        THEN [embed |-> FALSE, top10 |-> <<>>, ranking |-> <<>>]
        ELSE [embed |-> TRUE,
              top10 |-> most_common(PickField(reactions, "user_id"),
                                    StatsTop),
              ranking |-> ranking_fields(
                              sorted_roles(reactions, rank_roles, gd), gd)]

(***************************************************************************)
(* Activity statistics: the windowed aggregations                          *)
(***************************************************************************)
\* the time of day, the process having started at 00:00 UTC
hour(ts) == ts % HoursPerDay

\* variant: an aware time is not converted to UTC
parse_ts_NoConversion(text) == text.local

\* parse_ts of a text that parses: the UTC instant, a naive text being taken
\* as UTC
parse_ts(text) == IF text.aware THEN Instant(text) ELSE text.local

\* the rows of the guild in a ledger; none when the file is absent
GuildRows(f, g) ==
    IF f.exists
    THEN SelectSeq(DictReader(f), LAMBDA row : row["guild_id"] = str(g))
    ELSE <<>>

\* parse_ts raises on one of the rows
AnyUnparsable(rows) ==
    \E i \in 1..Len(rows) : ~Parses(rows[i]["timestamp"])

\* variant: a row exactly at the cutoff is left out
InWindow_Exclusive(ts, cutoff) == ts > cutoff

\* if ts >= cutoff
InWindow(ts, cutoff) == ts >= cutoff

\* the rows the loop counts, all of them parsing
WindowRows(rows, cutoff) ==
    SelectSeq(rows, LAMBDA row : InWindow(parse_ts(row["timestamp"]), cutoff))

\* what a command answers: the exception it ends with, one of its plain
\* messages, or its embed
Raised == [status |-> "raised", value |-> <<>>]

Plain(text) == [status |-> text, value |-> <<>>]

Embed(value) == [status |-> "ok", value |-> value]

\* count_messages_in_period of activity_overview, the rows all parsing
count_messages_in_period(rows, days, t) ==
    Len(WindowRows(rows, Cutoff(t, days)))

\* guild.get_channel(id) is not None
get_channel(gd, cid) == cid \in Range(gd.text_channels)

activity_overview(fa, fp, g, t, gd) ==
    LET message_rows == GuildRows(fa, g)
        role_ping_rows == GuildRows(fp, g)
        most_active_channel ==
            most_common(PickField(message_rows, "channel_id"), 1)
        most_active_user ==
            most_common(PickField(message_rows, "user_id"), 1)
        week == WindowRows(message_rows, Cutoff(t, ShortWindow))
        peak_hour ==
            most_common([i \in 1..Len(week) |->
                            hour(parse_ts(week[i]["timestamp"]))], 1)
    IN  IF AnyUnparsable(message_rows) \/ AnyUnparsable(role_ping_rows)
        THEN Raised
        ELSE IF /\ most_active_channel # <<>>
                /\ ~get_channel(gd, int(most_active_channel[1][1]))
        THEN Raised
        ELSE Embed([messages_7d |->
                        count_messages_in_period(message_rows, ShortWindow, t),
                    messages_30d |->
                        count_messages_in_period(message_rows, LongWindow, t),
                    pings_7d |->
                        count_messages_in_period(role_ping_rows, ShortWindow, t),
                    pings_30d |->
                        count_messages_in_period(role_ping_rows, LongWindow, t),
                    channel |-> most_active_channel,
                    user |-> most_active_user,
                    peak |-> peak_hour])

activity_hours(f, g, days, t) ==
    LET rows == GuildRows(f, g)
    IN  IF rows = <<>> THEN Plain("no data")
        ELSE IF AnyUnparsable(rows) THEN Raised
        ELSE LET counted == WindowRows(rows, Cutoff(t, days))
                 hours == [i \in 1..Len(counted) |->
                              hour(parse_ts(counted[i]["timestamp"]))]
             IN  IF counted = <<>> THEN Plain("no activity")
                 ELSE Embed([h \in 0..(HoursPerDay - 1) |->
                                Occurrences(hours, h)])

activity_channels(f, g, days, limit, t) ==
    LET rows == GuildRows(f, g)
    IN  IF rows = <<>> THEN Plain("no data")
        ELSE IF AnyUnparsable(rows) THEN Raised
        ELSE LET counted == WindowRows(rows, Cutoff(t, days))
             IN  IF counted = <<>> THEN Plain("no activity")
                 ELSE Embed(most_common(PickField(counted, "channel_id"),
                                        limit))

\* the glyph of one hour of the heatmap: 0 none, 1 low, 2 medium, 3 high
Glyph(count, max_activity) ==
    IF count = 0 THEN 0
    ELSE IF count * 100 < 33 * max_activity THEN 1
    ELSE IF count * 100 < 66 * max_activity THEN 2
    ELSE 3

\* the largest member of a non-empty set of numbers
Max(S) == CHOOSE x \in S : \A y \in S : y <= x

activity_channel_heatmap(f, g, days, t, gd) ==
    LET rows == GuildRows(f, g)
        cutoff == Cutoff(t, days)
        counted == SelectSeq(rows, LAMBDA row :
                       /\ Parses(row["timestamp"])
                       /\ ~(parse_ts(row["timestamp"]) < cutoff)
                       /\ \E i \in 1..Len(gd.text_channels) :
                              row["channel_id"] = str(gd.text_channels[i]))
        channel_activity(c) ==
            [h \in 0..(HoursPerDay - 1) |->
                Cardinality({i \in 1..Len(counted) :
                    /\ counted[i]["channel_id"] = str(c)
                    /\ hour(parse_ts(counted[i]["timestamp"])) = h})]
        total(c) ==
            Cardinality({i \in 1..Len(counted) :
                            counted[i]["channel_id"] = str(c)})
        active == SelectSeq(gd.text_channels, LAMBDA c : total(c) > 0)
        sorted == SortDesc([i \in 1..Len(active) |->
                               <<active[i], total(active[i])>>])
        top_channels ==
            SubSeq(sorted, 1,
                   IF Len(sorted) < HeatmapTop THEN Len(sorted)
                   ELSE HeatmapTop)
    IN  IF rows = <<>> THEN Plain("no data")
        ELSE IF top_channels = <<>> THEN Plain("no activity")
        ELSE Embed([i \in 1..Len(top_channels) |->
                       LET c == top_channels[i][1]
                           activity == channel_activity(c)
                           max_activity ==
                               Max({activity[h] : h \in DOMAIN activity})
                       IN  <<c, [h \in DOMAIN activity |->
                                    Glyph(activity[h], max_activity)]>>])

activity_user(f, g, days, t) ==
    LET rows == GuildRows(f, g)
    IN  IF AnyUnparsable(rows) THEN Raised
        ELSE LET counted == WindowRows(rows, Cutoff(t, days))
             IN  IF counted = <<>> THEN Plain("no data")
                 ELSE Embed(most_common(PickField(counted, "user_id"),
                                        UserTop))

RECURSIVE SumSeq(_)
SumSeq(s) == IF s = <<>> THEN 0 ELSE Head(s) + SumSeq(Tail(s))

\* max(1, int(total_users * top_percent)), the fraction given in percent
cutoff_index(total_users, percent) ==
    LET n == (total_users * percent) \div 100
    IN  IF n < 1 THEN 1 ELSE n

\* share(top_percent) as the pair (messages of the top users, all messages)
share(user_counts, total_messages, percent) ==
    LET k == cutoff_index(Len(user_counts), percent)
    IN  <<SumSeq(SubSeq(user_counts, 1,
                        IF k < Len(user_counts) THEN k ELSE Len(user_counts))),
          total_messages>>

activity_user_distribution(f, g, days, t) ==
    LET rows == GuildRows(f, g)
    IN  IF AnyUnparsable(rows) THEN Raised
        ELSE LET counted == WindowRows(rows, Cutoff(t, days))
                 user_counts ==
                     PickField(most_common_all(PickField(counted, "user_id")),
                               2)
                 total_messages == Len(counted)
             IN  IF counted = <<>> THEN Plain("no data")
                 ELSE Embed([total_users |-> Len(user_counts),
                             total_messages |-> total_messages,
                             top_10 |-> share(user_counts, total_messages, 10),
                             top_25 |-> share(user_counts, total_messages, 25),
                             top_50 |-> share(user_counts, total_messages, 50)])

\* {str(m.id) for m in role.members}
role_member_ids(gd, role) ==
    {str(gd.members[i]) : i \in {j \in 1..Len(gd.members) :
                                    role \in gd.member_roles[gd.members[j]]}}

activity_user_role(f, g, role, days, t, gd) ==
    LET ids == role_member_ids(gd, role)
        rows == SelectSeq(GuildRows(f, g), LAMBDA row : row["user_id"] \in ids)
    IN  IF ids = {} THEN Plain("no members")
        ELSE IF AnyUnparsable(rows) THEN Raised
        ELSE LET counted == WindowRows(rows, Cutoff(t, days))
             IN  IF counted = <<>> THEN Plain("no activity")
                 ELSE Embed(most_common(PickField(counted, "user_id"),
                                        UserTop))

\* insert p behind every pair whose key is not larger (stable, ascending)
InsertAsc(sorted, p) ==
    LET k == Cardinality({i \in 1..Len(sorted) : sorted[i][2] <= p[2]})
    IN  SubSeq(sorted, 1, k) \o <<p>> \o SubSeq(sorted, k + 1, Len(sorted))

RECURSIVE SortAsc(_)
\* list.sort(key=...) of (item, key) pairs
SortAsc(items) ==
    IF items = <<>> THEN <<>>
    ELSE InsertAsc(SortAsc(SubSeq(items, 1, Len(items) - 1)),
                   items[Len(items)])

\* variant: the first time seen is kept instead of the latest
last_seen_First(rows, uid) ==
    LET mine == {parse_ts(rows[i]["timestamp"]) :
                    i \in {j \in 1..Len(rows) : rows[j]["user_id"] = str(uid)}}
    IN  IF mine = {} THEN [seen |-> FALSE, ts |-> DatetimeMin]
        ELSE [seen |-> TRUE, ts |-> CHOOSE x \in mine : \A y \in mine : x <= y]

\* last_seen of a user: whether a row was seen, and the latest time
last_seen(rows, uid) ==
    LET mine == {parse_ts(rows[i]["timestamp"]) :
                    i \in {j \in 1..Len(rows) : rows[j]["user_id"] = str(uid)}}
    IN  IF mine = {} THEN [seen |-> FALSE, ts |-> DatetimeMin]
        ELSE [seen |-> TRUE, ts |-> Max(mine)]

\* activity_inactive: the lines of the reply, the first UserTop of the sorted
\* list, and the sorted list inactive_users itself
activity_inactive(f, g, days, t, gd) ==
    LET rows == GuildRows(f, g)
        cutoff == Cutoff(t, days)
        people == SelectSeq(gd.members, LAMBDA u : u \notin gd.bots)
        inactive_users ==
            SelectSeq(people, LAMBDA u :
                LET last == last_seen(rows, u)
                IN  ~last.seen \/ last.ts < cutoff)
        sorted == SortAsc([i \in 1..Len(inactive_users) |->
                              <<inactive_users[i],
                                last_seen(rows, inactive_users[i]).ts>>])
        shown == SubSeq(sorted, 1,
                        IF Len(sorted) < UserTop THEN Len(sorted)
                        ELSE UserTop)
    IN  IF AnyUnparsable(rows) THEN Raised
        ELSE IF inactive_users = <<>> THEN Plain("none inactive")
        ELSE [status |-> "ok",
              value |-> [i \in 1..Len(shown) |->
                           LET last == last_seen(rows, shown[i][1])
                           IN  [member |-> shown[i][1],
                                never |-> ~last.seen,
                                days_ago |->
                                    IF last.seen
                                    THEN (t - last.ts) \div HoursPerDay
                                    ELSE 0]],
              inactive_users |-> sorted]

RECURSIVE sort_by_ratio_Ascending(_)
\* variant: reverse=True is left out
sort_by_ratio_Ascending(entries) ==
    IF entries = {} THEN {<<>>}
    ELSE UNION {{<<e>> \o s : s \in sort_by_ratio_Ascending(entries \ {e})} :
                   e \in {x \in entries : \A y \in entries :
                             x[3] * (y[2] + y[3]) <= y[3] * (x[2] + x[3])}}

RECURSIVE sort_by_ratio(_)
\* the lists rows.sort(key=ratio, reverse=True) can leave, the entries being
\* (uid, msgs, pings) and ratio = pings / (msgs + pings): rows is built in
\* the iteration order of the set users, which is any order, and the sort
\* is stable, so entries of equal ratio come out in any order
sort_by_ratio(entries) ==
    IF entries = {} THEN {<<>>}
    ELSE UNION {{<<e>> \o s : s \in sort_by_ratio(entries \ {e})} :
                   e \in {x \in entries : \A y \in entries :
                             x[3] * (y[2] + y[3]) >= y[3] * (x[2] + x[3])}}

\* the (user, messages, pings) of every user counted in either ledger
activity_user_ping_ratio(fa, fp, g, days, t) ==
    LET message_rows == GuildRows(fa, g)
        ping_rows == GuildRows(fp, g)
    IN  IF AnyUnparsable(message_rows) \/ AnyUnparsable(ping_rows)
        THEN Raised
        ELSE LET cutoff == Cutoff(t, days)
                 msgs == PickField(WindowRows(message_rows, cutoff), "user_id")
                 pings == PickField(WindowRows(ping_rows, cutoff), "user_id")
                 users == Range(msgs) \cup Range(pings)
             IN  IF users = {} THEN Plain("no data")
                 ELSE Embed({<<uid, Occurrences(msgs, uid),
                               Occurrences(pings, uid)>> : uid \in users})

(***************************************************************************)
(* State machine                                                           *)
(***************************************************************************)
GuildIds == {1, 2}

NoStores == [g \in GuildIds |-> AbsentStore]

NoConfigs == [g \in GuildIds |-> AbsentConfig]

\* the home guild as the platform reports it: its members in order, which of
\* them are bots, its roles, the roles each member holds and its text
\* channels in order
InitialGuild ==
    [members |-> <<100, 200, 900>>,
     bots |-> {900},
     roles |-> {10, 20, 30},
     member_roles |-> [u \in {100, 200, 900} |->
                          IF u = 100 THEN {10, 20}
                          ELSE IF u = 200 THEN {10, 30} ELSE {}],
     text_channels |-> <<7, 8>>]

\* rows a file may hold when the process starts: old data written with naive
\* timestamps, rows stamped in another zone, and rows whose timestamp is not
\* ISO-8601
LegacyStamps ==
    {NaiveStamp(0 - CLEANUP_DAYS * HoursPerDay),
     OffsetStamp(0 - CLEANUP_DAYS * HoursPerDay, 1),
     BadStamp}

LegacyLines == {<<str(1), str(10), str(100), str(7), s>> : s \in LegacyStamps}

LegacyData ==
    UNION {[1..n -> LegacyLines] : n \in 1..MaxLegacy}

InitialFiles ==
    {AbsentFile, EmptyFile, HeaderOnlyFile}
        \cup {[exists |-> TRUE, header |-> Header, data |-> d] : d \in LegacyData}

\* the number of data rows of a file, -1 when the file does not exist
RowsBefore(f) == IF f.exists THEN Len(f.data) ELSE 0 - 1

\* the record of the operation being executed: its name, its arguments, the
\* number of data rows it found and, for a cleanup that directly follows a
\* cleanup with the same days at the same time, what that one removed
Op(name, g, r, u, n) ==
    [op |-> name, g |-> g, r |-> r, u |-> u, n |-> n,
     before |-> RowsBefore(csv), prev |-> 0 - 1]

NoCalls == [valid |-> TRUE, calls |-> <<>>]

\* the appends made since the ledger last held no data row, as long as
\* nothing else has changed the file
HistAfter(f2, f1, h) ==
    IF f2 = f1 THEN h
    ELSE IF f2.data = <<>> THEN NoCalls
    ELSE [valid |-> FALSE, calls |-> <<>>]

Init ==
    /\ csv \in InitialFiles
    /\ now = 0
    /\ lastOp = [op |-> "start", g |-> 0, r |-> 0, u |-> 0, n |-> 0,
                 before |-> 0 - 1, prev |-> 0 - 1]
    /\ ret = <<>>
    /\ hist = [valid |-> csv.data = <<>>, calls |-> <<>>]
    /\ act = AbsentFile
    /\ rx = NoStores
    /\ cfg = NoConfigs
    /\ guild = InitialGuild

\* the clock advances
Tick ==
    \E s \in ClockSteps :
        /\ now + s <= MaxExtraHours
        /\ now' = now + s
        /\ lastOp' = Op("tick", 0, 0, 0, s)
        /\ ret' = <<>>
        /\ UNCHANGED <<csv, hist, act, rx, cfg, guild>>

EnsureCsvExists ==
    /\ csv' = ensure_csv_exists(csv)
    /\ lastOp' = Op("ensure_csv_exists", 0, 0, 0, 0)
    /\ ret' = <<>>
    /\ UNCHANGED <<now, hist, act, rx, cfg, guild>>

AppendPing ==
    \E p \in Pings :
        /\ Len(csv.data) < MaxRows
        /\ csv' = append_ping(csv, p[1], p[2], p[3], p[4], now)
        /\ lastOp' = Op("append_ping", p[1], p[2], p[3], p[4])
        /\ ret' = <<>>
        /\ hist' = [hist EXCEPT !.calls =
                        IF hist.valid THEN Append(@, p) ELSE @]
        /\ UNCHANGED <<now, act, rx, cfg, guild>>

ReadAllPings ==
    /\ csv' = ensure_csv_exists(csv)
    /\ ret' = read_all_pings(csv)
    /\ lastOp' = Op("read_all_pings", 0, 0, 0, 0)
    /\ UNCHANGED <<now, hist, act, rx, cfg, guild>>

CleanupOldEntries ==
    \E days \in DaysArgs :
        /\ csv' = cleanup_file(csv, days, now)
        /\ ret' = cleanup_removed(csv, days, now)
        /\ lastOp' = [Op("cleanup_old_entries", 0, 0, 0, days) EXCEPT !.prev =
                        IF lastOp.op = "cleanup_old_entries" /\ lastOp.n = days
                        THEN ret ELSE 0 - 1]
        /\ hist' = HistAfter(csv', csv, hist)
        /\ UNCHANGED <<now, act, rx, cfg, guild>>

GetTopForRole ==
    \E q \in RolePairs, limit \in Limits :
        /\ csv' = ensure_csv_exists(csv)
        /\ ret' = get_top_for_role(csv, q[1], q[2], limit)
        /\ lastOp' = Op("get_top_for_role", q[1], q[2], 0, limit)
        /\ UNCHANGED <<now, hist, act, rx, cfg, guild>>

GetCountsForUser ==
    \E q \in UserPairs :
        /\ csv' = ensure_csv_exists(csv)
        /\ ret' = get_counts_for_user(csv, q[1], q[2])
        /\ lastOp' = Op("get_counts_for_user", q[1], 0, q[2], 0)
        /\ UNCHANGED <<now, hist, act, rx, cfg, guild>>

ResetRoleCounts ==
    \E q \in RolePairs :
        /\ csv' = reset_role_counts(csv, q[1], q[2])
        /\ lastOp' = Op("reset_role_counts", q[1], q[2], 0, 0)
        /\ ret' = <<>>
        /\ hist' = HistAfter(csv', csv, hist)
        /\ UNCHANGED <<now, act, rx, cfg, guild>>

ResetUserCounts ==
    \E q \in UserPairs :
        /\ csv' = reset_user_counts(csv, q[1], q[2])
        /\ lastOp' = Op("reset_user_counts", q[1], 0, q[2], 0)
        /\ ret' = <<>>
        /\ hist' = HistAfter(csv', csv, hist)
        /\ UNCHANGED <<now, act, rx, cfg, guild>>

Next ==
    \/ Tick
    \/ EnsureCsvExists
    \/ AppendPing
    \/ ReadAllPings
    \/ CleanupOldEntries
    \/ GetTopForRole
    \/ GetCountsForUser
    \/ ResetRoleCounts
    \/ ResetUserCounts

Spec == Init /\ [][Next]_vars

(***************************************************************************)
(* State machine of the event handlers: messages and retention             *)
(***************************************************************************)
Role(id, mentionable) == [id |-> id, mentionable |-> mentionable]

\* the messages that arrive: a spoiler attachment with a mentionable and an
\* unmentionable role mention; a plain message with two mentionable
\* mentions; a bot's message whose attachment has SPOILER_ inside its name;
\* a direct message with a spoiler text; a spoiler text in a second guild
Messages ==
    {[id |-> 1, bot |-> FALSE, guild |-> 1, author |-> 100, channel |-> 7,
      role_mentions |-> <<Role(10, TRUE), Role(30, FALSE)>>,
      attachments |-> << <<"SPOILER_", "cat.png">> >>,
      content |-> <<"look">>],
     [id |-> 2, bot |-> FALSE, guild |-> 1, author |-> 200, channel |-> 8,
      role_mentions |-> <<Role(10, TRUE), Role(20, TRUE)>>,
      attachments |-> <<>>,
      content |-> <<"plain">>],
     [id |-> 3, bot |-> TRUE, guild |-> 1, author |-> 900, channel |-> 7,
      role_mentions |-> <<Role(10, TRUE)>>,
      attachments |-> << <<"cat_", "SPOILER_", ".png">> >>,
      content |-> <<"beep">>],
     [id |-> 4, bot |-> FALSE, guild |-> NoGuild, author |-> 100,
      channel |-> 9,
      role_mentions |-> <<>>,
      attachments |-> <<>>,
      content |-> <<"||", "secret", "||">>],
     [id |-> 5, bot |-> FALSE, guild |-> 2, author |-> 100, channel |-> 7,
      role_mentions |-> <<>>,
      attachments |-> <<>>,
      content |-> <<"see ", "||", "this", "||">>]}

\* the guild the statistics commands are run in
HomeGuild == 1

\* the ledgers the handlers may find when the process starts
HandlerPingFiles == {f \in InitialFiles : Len(f.data) <= 1}

\* no message ledger, one without rows, and one with a row written 30 days
\* to the hour before the process started
HandlerActivityFiles ==
    {AbsentFile,
     [exists |-> TRUE, header |-> ActivityHeader, data |-> <<>>],
     [exists |-> TRUE, header |-> ActivityHeader,
      data |-> << <<str(1), str(100), str(7),
                    NaiveStamp(0 - CLEANUP_DAYS * HoursPerDay)>> >>]}

InitHandlers ==
    /\ csv \in HandlerPingFiles
    /\ act \in HandlerActivityFiles
    /\ now = 0
    /\ lastOp = [op |-> "start"]
    /\ ret = <<>>
    /\ hist = NoCalls
    /\ rx = NoStores
    /\ cfg = NoConfigs
    /\ guild = InitialGuild

\* on_message for one message; each of the two ledgers may refuse to be
\* opened for writing
OnMessage ==
    \E m \in Messages, actFails \in BOOLEAN, csvFails \in BOOLEAN :
        /\ Len(act.data) < MaxActivity
        /\ Len(csv.data) + Len(m.role_mentions) <= MaxRows
        /\ act' = on_message_activity(act, m, now, actFails)
        /\ csv' = on_message_pings(csv, m, now, actFails, csvFails)
        /\ lastOp' = [op |-> "on_message", m |-> m, actFails |-> actFails,
                      csvFails |-> csvFails,
                      raised |-> on_message_raises(m, actFails)]
        /\ ret' = <<>>
        /\ UNCHANGED <<now, hist, rx, cfg, guild>>

\* on_ready: both kinds of file are made sure of, then the startup cleanup
OnReady ==
    /\ csv' = cleanup_file(ensure_csv_exists(csv), CLEANUP_DAYS, now)
    /\ rx' = [g \in GuildIds |-> ensure_reaction_json_exists(rx[g])]
    /\ ret' = cleanup_removed(ensure_csv_exists(csv), CLEANUP_DAYS, now)
    /\ lastOp' = [op |-> "on_ready", days |-> CLEANUP_DAYS]
    /\ UNCHANGED <<act, now, hist, cfg, guild>>

\* one run of the 24-hour task
DailyCleanup ==
    /\ csv' = cleanup_file(csv, CLEANUP_DAYS, now)
    /\ ret' = cleanup_removed(csv, CLEANUP_DAYS, now)
    /\ lastOp' = [op |-> "daily_cleanup", days |-> CLEANUP_DAYS]
    /\ UNCHANGED <<act, now, hist, rx, cfg, guild>>

\* the cleanup command, its days not given (taken as 0), one day, or one
\* day below zero: the parameter is a plain int
CleanupCommand ==
    \E days \in {0, 1, 0 - 1} :
        /\ csv' = cleanup_file(csv, DaysOrDefault(days), now)
        /\ ret' = cleanup_removed(csv, DaysOrDefault(days), now)
        /\ lastOp' = [op |-> "cleanup", days |-> DaysOrDefault(days),
                      arg |-> days]
        /\ UNCHANGED <<act, now, hist, rx, cfg, guild>>

NextHandlers ==
    \/ Tick
    \/ OnMessage
    \/ OnReady
    \/ DailyCleanup
    \/ CleanupCommand

SpecHandlers == InitHandlers /\ [][NextHandlers]_vars

(***************************************************************************)
(* State machine of the spoiler reactions and their statistics             *)
(***************************************************************************)
\* a reaction of a user on the message with the id; the emoji is a unicode
\* emoji (id 0) or a custom one
Reaction(bot, user, mid, emoji) ==
    [bot |-> bot, user |-> user,
     message |-> CHOOSE m \in Messages : m.id = mid,
     emoji |-> emoji]

\* the reactions that arrive: two members and a bot on the spoiler
\* attachment, then one each on the plain message, on the attachment that
\* only has SPOILER_ inside its name, on the direct message and on the
\* spoiler text of the second guild
Reactions ==
    {Reaction(FALSE, 100, 1, [name |-> "+1", id |-> 0]),
     Reaction(FALSE, 200, 1, [name |-> "party", id |-> 30]),
     Reaction(TRUE, 900, 1, [name |-> "+1", id |-> 0]),
     Reaction(FALSE, 100, 2, [name |-> "+1", id |-> 0]),
     Reaction(FALSE, 100, 3, [name |-> "+1", id |-> 0]),
     Reaction(FALSE, 100, 4, [name |-> "+1", id |-> 0]),
     Reaction(FALSE, 200, 5, [name |-> "party", id |-> 30])}

\* the role arguments of reaction_set_roles
RoleChoices == {<<10>>, <<10, 20>>, <<30, 20, 10>>, <<10, 10>>}

\* no store yet, or the home guild's store with two reactions recorded 30
\* days before the process started: one to the hour, as a text without
\* offset, one an hour earlier as a text of another zone
InitReactions ==
    /\ csv = AbsentFile
    /\ act = AbsentFile
    /\ now = 0
    /\ lastOp = [op |-> "start"]
    /\ ret = <<>>
    /\ hist = NoCalls
    /\ rx \in {NoStores,
               [NoStores EXCEPT ![HomeGuild] =
                   [exists |-> TRUE,
                    reactions |->
                        <<[ReactionEntry(1, 100, "+1", 0) EXCEPT
                              !.timestamp =
                                  NaiveStamp(0 - CLEANUP_DAYS * HoursPerDay)],
                          [ReactionEntry(1, 200, "+1", 0) EXCEPT
                              !.timestamp =
                                  OffsetStamp(0 - CLEANUP_DAYS * HoursPerDay,
                                              1)]>>]]}
    /\ cfg = NoConfigs
    /\ guild = InitialGuild

\* on_reaction_add for one reaction; the store may refuse to be opened for
\* writing, and then record_reaction raises
OnReactionAdd ==
    \E e \in Reactions, rxFails \in BOOLEAN :
        /\ \A g \in GuildIds : Len(rx[g].reactions) < MaxReactions
        /\ rx' = IF rxFails \/ e.message.guild = NoGuild THEN rx
                 ELSE [rx EXCEPT
                          ![e.message.guild] = on_reaction_add(@, e, now)]
        /\ lastOp' = [op |-> "on_reaction_add", e |-> e,
                      rxFails |-> rxFails,
                      raised |-> IsRecorded(e) /\ rxFails]
        /\ ret' = <<>>
        /\ UNCHANGED <<csv, act, now, hist, cfg, guild>>

ReactionSetRoles ==
    \E roles \in RoleChoices :
        /\ Range(roles) \subseteq guild.roles
        /\ cfg' = [cfg EXCEPT ![HomeGuild] = reaction_set_roles(roles)]
        /\ lastOp' = [op |-> "reaction_set_roles", roles |-> roles]
        /\ ret' = <<>>
        /\ UNCHANGED <<csv, act, now, hist, rx, guild>>

Reactionstats ==
    /\ rx' = [rx EXCEPT ![HomeGuild] = load_reaction_stats(@)]
    /\ ret' = reactionstats(rx[HomeGuild], cfg[HomeGuild], guild)
    /\ lastOp' = [op |-> "reactionstats"]
    /\ UNCHANGED <<csv, act, now, hist, cfg, guild>>

\* a member leaves the home guild
MemberLeaves ==
    \E u \in {200} \cap Range(guild.members) :
        /\ guild' = [guild EXCEPT
                        !.members = SelectSeq(@, LAMBDA m : m # u)]
        /\ lastOp' = [op |-> "member_leaves", u |-> u]
        /\ ret' = <<>>
        /\ UNCHANGED <<csv, act, now, hist, rx, cfg>>

\* a role of the home guild is deleted: no member holds it any more
RoleDeleted ==
    \E r \in {30} \cap guild.roles :
        /\ guild' = [guild EXCEPT
                        !.roles = @ \ {r},
                        !.member_roles = [u \in DOMAIN @ |-> @[u] \ {r}]]
        /\ lastOp' = [op |-> "role_deleted", r |-> r]
        /\ ret' = <<>>
        /\ UNCHANGED <<csv, act, now, hist, rx, cfg>>

\* the reaction_reset command in a guild
ReactionReset ==
    \E g \in GuildIds :
        /\ rx' = [rx EXCEPT ![g] = reaction_reset(@)]
        /\ lastOp' = [op |-> "reaction_reset", g |-> g,
                      had |-> Len(rx[g].reactions)]
        /\ ret' = <<>>
        /\ UNCHANGED <<csv, act, now, hist, cfg, guild>>

\* the reaction_cleanup command in a guild, days at its default or one day
ReactionCleanup ==
    \E g \in GuildIds, days \in {30, 1} :
        /\ rx' = [rx EXCEPT ![g] = reaction_cleanup(@, days, now).store]
        /\ ret' = reaction_cleanup(rx[g], days, now)
        /\ lastOp' = [op |-> "reaction_cleanup", g |-> g, days |-> days]
        /\ UNCHANGED <<csv, act, now, hist, cfg, guild>>

\* append_spoiler_reaction_json, which no handler calls, called on its own:
\* for a member on the plain message and for a bot on the spoiler attachment
AppendSpoilerReactionJson ==
    \E c \in {<<HomeGuild, 2, 100>>, <<HomeGuild, 1, 900>>} :
        /\ \A g \in GuildIds : Len(rx[g].reactions) < MaxReactions
        /\ rx' = [rx EXCEPT ![c[1]] =
                     [ensure_reaction_json_exists(@) EXCEPT
                         !.reactions =
                             Append(@, ReactionEntry(c[2], c[3], "+1", now))]]
        /\ lastOp' = [op |-> "append_spoiler_reaction_json", g |-> c[1],
                      message_id |-> c[2], user_id |-> c[3]]
        /\ ret' = <<>>
        /\ UNCHANGED <<csv, act, now, hist, cfg, guild>>

\* read_reaction_json, which no handler calls, called on its own
ReadReactionJson ==
    \E g \in GuildIds :
        /\ rx' = [rx EXCEPT ![g] = ensure_reaction_json_exists(@)]
        /\ ret' = ensure_reaction_json_exists(rx[g]).reactions
        /\ lastOp' = [op |-> "read_reaction_json", g |-> g]
        /\ UNCHANGED <<csv, act, now, hist, cfg, guild>>

NextReactions ==
    \/ OnReactionAdd
    \/ AppendSpoilerReactionJson
    \/ ReadReactionJson
    \/ ReactionSetRoles
    \/ Reactionstats
    \/ MemberLeaves
    \/ RoleDeleted
    \/ ReactionReset
    \/ ReactionCleanup

SpecReactions == InitReactions /\ [][NextReactions]_vars

(***************************************************************************)
(* State machine of the activity statistics                                *)
(***************************************************************************)
\* the days argument of the statistics commands: the two defaults
WindowDays == {ShortWindow, LongWindow}

\* message rows written before the process started: 7 days ago to the hour
\* as a naive text, the hour after that as a text of another zone, 30 days
\* ago to the hour, and a timestamp that is not ISO-8601
LegacyActivityStamps ==
    {NaiveStamp(0 - ShortWindow * HoursPerDay),
     OffsetStamp(0 - ShortWindow * HoursPerDay, 0 - 1),
     NaiveStamp(0 - LongWindow * HoursPerDay),
     BadStamp}

\* no message ledger, one of up to MaxLegacy such rows of one user, or one
\* with a row of each of three other users written 7 days before the start
ActivityFiles ==
    {AbsentFile,
     [exists |-> TRUE, header |-> ActivityHeader,
      data |-> [i \in 1..3 |->
                   ActivityLine(1, 100 * (i + 1), 7,
                                0 - ShortWindow * HoursPerDay)]]}
        \cup {[exists |-> TRUE, header |-> ActivityHeader, data |-> d] :
                 d \in UNION {[1..n -> {<<str(1), str(100), str(7), s>> :
                                            s \in LegacyActivityStamps}] :
                                 n \in 1..MaxLegacy}}

\* the role-ping ledger is absent or holds one row whose timestamp is not
\* ISO-8601 or, beside the message ledger of three users, one row written
\* 30 days before the start
InitActivity ==
    /\ act \in ActivityFiles
    /\ csv \in {f \in HandlerPingFiles :
                  \/ ~f.exists
                  \/ /\ Len(f.data) = 1
                     /\ \/ ~Parses(f.data[1][5])
                        \/ /\ ~f.data[1][5].aware
                           /\ act.data # <<>>
                           /\ act.data[1][2] = str(200)}
    /\ now = 0
    /\ lastOp = [op |-> "start"]
    /\ ret = <<>>
    /\ hist = NoCalls
    /\ rx = NoStores
    /\ cfg = NoConfigs
    /\ guild = InitialGuild

ActivityOverview ==
    /\ ret' = activity_overview(act, csv, HomeGuild, now, guild)
    /\ lastOp' = [op |-> "activity_overview"]
    /\ UNCHANGED <<csv, act, now, hist, rx, cfg, guild>>

ActivityHours ==
    \E days \in WindowDays :
        /\ ret' = activity_hours(act, HomeGuild, days, now)
        /\ lastOp' = [op |-> "activity_hours", days |-> days]
        /\ UNCHANGED <<csv, act, now, hist, rx, cfg, guild>>

ActivityChannels ==
    \E days \in WindowDays, limit \in Limits :
        /\ ret' = activity_channels(act, HomeGuild, days, limit, now)
        /\ lastOp' = [op |-> "activity_channels", days |-> days,
                      limit |-> limit]
        /\ UNCHANGED <<csv, act, now, hist, rx, cfg, guild>>

ActivityChannelHeatmap ==
    \E days \in WindowDays :
        /\ ret' = activity_channel_heatmap(act, HomeGuild, days, now, guild)
        /\ lastOp' = [op |-> "activity_channel_heatmap", days |-> days]
        /\ UNCHANGED <<csv, act, now, hist, rx, cfg, guild>>

ActivityUser ==
    \E days \in WindowDays :
        /\ ret' = activity_user(act, HomeGuild, days, now)
        /\ lastOp' = [op |-> "activity_user", days |-> days]
        /\ UNCHANGED <<csv, act, now, hist, rx, cfg, guild>>

ActivityUserDistribution ==
    \E days \in WindowDays :
        /\ ret' = activity_user_distribution(act, HomeGuild, days, now)
        /\ lastOp' = [op |-> "activity_user_distribution", days |-> days]
        /\ UNCHANGED <<csv, act, now, hist, rx, cfg, guild>>

ActivityUserRole ==
    \E role \in {10, 30}, days \in WindowDays :
        /\ ret' = activity_user_role(act, HomeGuild, role, days, now, guild)
        /\ lastOp' = [op |-> "activity_user_role", days |-> days,
                      role |-> role]
        /\ UNCHANGED <<csv, act, now, hist, rx, cfg, guild>>

ActivityInactive ==
    \E days \in WindowDays :
        /\ ret' = activity_inactive(act, HomeGuild, days, now, guild)
        /\ lastOp' = [op |-> "activity_inactive", days |-> days]
        /\ UNCHANGED <<csv, act, now, hist, rx, cfg, guild>>

\* the command, with one of the orders the sort can leave; the reply shows
\* the first UserTop rows
ActivityUserPingRatio ==
    \E days \in WindowDays :
        /\ LET r == activity_user_ping_ratio(act, csv, HomeGuild, days, now)
           IN  ret' \in
                 IF r.status # "ok" THEN {r}
                 ELSE {[status |-> "ok", value |-> r.value, rows |-> rows,
                        shown |-> SubSeq(rows, 1,
                                         IF Len(rows) < UserTop THEN Len(rows)
                                         ELSE UserTop)] :
                          rows \in sort_by_ratio(r.value)}
        /\ lastOp' = [op |-> "activity_user_ping_ratio", days |-> days]
        /\ UNCHANGED <<csv, act, now, hist, rx, cfg, guild>>

NextActivity ==
    \/ Tick
    \/ OnMessage
    \/ ActivityOverview
    \/ ActivityHours
    \/ ActivityChannels
    \/ ActivityChannelHeatmap
    \/ ActivityUser
    \/ ActivityUserDistribution
    \/ ActivityUserRole
    \/ ActivityInactive
    \/ ActivityUserPingRatio

SpecActivity == InitActivity /\ [][NextActivity]_vars

(***************************************************************************)
(* State machine of the event loop: handlers that rewrite the ledger       *)
(***************************************************************************)
\* variant: the loop may switch to another handler at any point
AtAwait_Anywhere(frames) == TRUE

\* the event loop runs another handler only while no handler is between
\* two awaits: read_all_pings, write_all_pings and cleanup_old_entries are
\* plain functions, and resetcounts, resetmycounts, cleanup and
\* daily_cleanup await nothing between the read and the write. frames holds
\* the handler that has read the ledger and not yet written it
AtAwait(frames) == frames = <<>>

\* the ledger is absent or holds up to one old row; nothing is in flight
InitLoop ==
    /\ csv \in HandlerPingFiles
    /\ act = AbsentFile
    /\ now = 0
    /\ lastOp = [op |-> "start"]
    /\ ret = <<>>
    /\ hist = {}
    /\ rx = NoStores
    /\ cfg = NoConfigs
    /\ guild = InitialGuild

\* on_message up to its first await: the appends to both ledgers
LoopOnMessage ==
    \E m \in Messages :
        /\ AtAwait(ret)
        /\ Len(act.data) < MaxActivity
        /\ Len(csv.data) + Len(m.role_mentions) <= MaxRows
        /\ act' = on_message_activity(act, m, now, FALSE)
        /\ csv' = on_message_pings(csv, m, now, FALSE, FALSE)
        /\ lastOp' = [op |-> "on_message", m |-> m]
        /\ UNCHANGED <<ret, now, hist, rx, cfg, guild>>

\* resetcounts and resetmycounts up to the return of read_all_pings and the
\* list comprehension: new_rows is held, the file has been made sure of
ResetRead ==
    \E h \in {"resetcounts", "resetmycounts"}, q \in RolePairs \cup UserPairs :
        /\ AtAwait(ret)
        /\ h = "resetcounts" => q \in RolePairs
        /\ h = "resetmycounts" => q \in UserPairs
        /\ csv' = ensure_csv_exists(csv)
        /\ ret' = << [handler |-> h, g |-> q[1], k |-> q[2], days |-> 0,
                      rows |-> SelectSeq(read_all_pings(csv),
                                 LAMBDA row :
                                   IF h = "resetcounts"
                                   THEN ~ResetRoleMatch(row, q[1], q[2])
                                   ELSE ~ResetUserMatch(row, q[1], q[2]))] >>
        /\ lastOp' = [op |-> "read", handler |-> h]
        /\ UNCHANGED <<act, now, hist, rx, cfg, guild>>

\* cleanup_old_entries, called by the cleanup command (days not given, taken
\* as 0, or one day) or by daily_cleanup, up to the end of its read loop:
\* kept is held when removed > 0; otherwise it has returned and the handler
\* is at its await
CleanupRead ==
    \E h \in {"cleanup", "daily_cleanup"}, d \in {0, 1} :
        /\ AtAwait(ret)
        /\ h = "daily_cleanup" => d = 0
        /\ LET days == DaysOrDefault(d)
               rewrites == cleanup_removed(csv, days, now) > 0
           IN  /\ ret' = IF rewrites
                         THEN << [handler |-> h, g |-> 0, k |-> 0,
                                  days |-> days,
                                  rows |-> KeptRows(DictReader(csv),
                                                    Cutoff(now, days))] >>
                         ELSE <<>>
               /\ hist' = IF rewrites THEN hist ELSE hist \cup {h}
               /\ lastOp' = [op |-> "read", handler |-> h]
        /\ UNCHANGED <<csv, act, now, rx, cfg, guild>>

\* the handler that has read writes its rows: write_all_pings, or the
\* rewrite at the end of cleanup_old_entries; it then awaits its response
Write ==
    /\ ret # <<>>
    /\ csv' = write_all_pings(ret[1].rows)
    /\ ret' = <<>>
    /\ hist' = hist \cup {ret[1].handler}
    /\ lastOp' = [op |-> "write", frame |-> ret[1]]
    /\ UNCHANGED <<act, now, rx, cfg, guild>>

\* an awaited response is sent and its handler returns
Respond ==
    \E h \in hist :
        /\ AtAwait(ret)
        /\ hist' = hist \ {h}
        /\ lastOp' = [op |-> "respond", handler |-> h]
        /\ UNCHANGED <<csv, act, now, ret, rx, cfg, guild>>

NextLoop ==
    \/ LoopOnMessage
    \/ ResetRead
    \/ CleanupRead
    \/ Write
    \/ Respond

SpecLoop == InitLoop /\ [][NextLoop]_vars

(***************************************************************************)
(* Properties                                                              *)
(***************************************************************************)
\* the rows a reader finds in the ledger; none when the file is absent
LedgerRows(f) == IF f.exists THEN DictReader(f) ELSE <<>>

\* the UTC instant an ISO timestamp denotes; a text without offset is UTC
NormalizedUtc(text) == text.local - text.off

RowParses(row) == row["timestamp"].valid

\* C1: after N appends to a ledger that had no data row, with nothing else
\* changing the file in between, read_all_pings returns exactly N rows in
\* append order, whose guild_id, role_id, user_id and channel_id are the
\* string forms of the appended values.
C1_AppendRoundTrip ==
    (lastOp.op = "read_all_pings" /\ hist.valid) =>
        /\ Len(ret) = Len(hist.calls)
        /\ \A i \in 1..Len(ret) :
              /\ ret[i]["guild_id"] = str(hist.calls[i][1])
              /\ ret[i]["role_id"] = str(hist.calls[i][2])
              /\ ret[i]["user_id"] = str(hist.calls[i][3])
              /\ ret[i]["channel_id"] = str(hist.calls[i][4])

C1_Witness ==
    /\ lastOp.op = "read_all_pings"
    /\ hist.valid
    /\ Len(hist.calls) >= 2
    /\ hist.calls[1] # hist.calls[2]
    /\ Len(ret) = Len(hist.calls)

\* the rows of rs whose normalized timestamp is not before t - days
FreshRows(rs, t, days) ==
    SelectSeq(rs, LAMBDA row :
        NormalizedUtc(row["timestamp"]) >= t - days * HoursPerDay)

HasExpired(rs, t, days) ==
    \E i \in 1..Len(rs) :
        NormalizedUtc(rs[i]["timestamp"]) < t - days * HoursPerDay

\* C2: cleanup_old_entries(days) on a ledger whose rows all have parsable
\* timestamps, at least one of them expired, leaves exactly the rows whose
\* UTC-normalized timestamp is >= now - days, in their original order.
C2_CleanupKeepsExactlyFresh ==
    [][(/\ lastOp'.op = "cleanup_old_entries"
        /\ csv.exists
        /\ \A i \in 1..Len(LedgerRows(csv)) : RowParses(LedgerRows(csv)[i])
        /\ HasExpired(LedgerRows(csv), now, lastOp'.n))
       => LedgerRows(csv') = FreshRows(LedgerRows(csv), now, lastOp'.n)]_vars

\* a cleanup has removed a row one hour past the cutoff and kept a row that
\* is exactly at the cutoff
C2_Witness ==
    /\ lastOp.op = "cleanup_old_entries"
    /\ ret > 0
    /\ lastOp.before = Len(csv.data) + 1
    /\ \E i \in 1..Len(csv.data) :
          NormalizedUtc(csv.data[i][5]) = now - lastOp.n * HoursPerDay
    /\ \A i \in 1..Len(csv.data) : csv.data[i][5].valid

\* C3: a cleanup that directly follows a cleanup with the same days at the
\* same time removes zero rows and leaves the ledger as the first run left it.
C3_CleanupIdempotent ==
    [][(lastOp'.op = "cleanup_old_entries" /\ lastOp'.prev >= 0)
       => (csv' = csv /\ ret' = 0)]_vars

\* the second of two such cleanups has run, and the first had removed rows
C3_Witness ==
    /\ lastOp.op = "cleanup_old_entries"
    /\ lastOp.prev > 0
    /\ ret = 0
    /\ Len(csv.data) > 0

\* C4: after cleanup_old_entries returns on an existing ledger, the ledger
\* holds no row whose timestamp fails to parse, whether or not another row
\* was expired.
C4_NoUnparsableRowAfterCleanup ==
    (lastOp.op = "cleanup_old_entries" /\ csv.exists) =>
        \A i \in 1..Len(LedgerRows(csv)) : RowParses(LedgerRows(csv)[i])

\* the rows of rs that are not of guild g and role r
WithoutRole(rs, g, r) ==
    SelectSeq(rs, LAMBDA row :
        ~(row["guild_id"] = str(g) /\ row["role_id"] = str(r)))

\* the rows of rs that are not of guild g and user u
WithoutUser(rs, g, u) ==
    SelectSeq(rs, LAMBDA row :
        ~(row["guild_id"] = str(g) /\ row["user_id"] = str(u)))

\* C5: reset_role_counts(g, r) removes exactly the rows with guild_id = g and
\* role_id = r; every other row remains, unchanged and in its original order.
C5_ResetRoleScoped ==
    [][lastOp'.op = "reset_role_counts"
       => LedgerRows(csv') = WithoutRole(LedgerRows(csv), lastOp'.g, lastOp'.r)]_vars

\* a reset has removed a row and left a row of the same role in another guild
\* or a row of another role in the same guild
C5_Witness ==
    /\ lastOp.op = "reset_role_counts"
    /\ lastOp.before > Len(csv.data)
    /\ Len(csv.data) = 2
    /\ \E i \in 1..Len(csv.data) :
          csv.data[i][1] # str(lastOp.g) /\ csv.data[i][2] = str(lastOp.r)
    /\ \E i \in 1..Len(csv.data) :
          csv.data[i][1] = str(lastOp.g) /\ csv.data[i][2] # str(lastOp.r)

\* C6: reset_user_counts(g, u) removes exactly the rows with guild_id = g and
\* user_id = u; every other row remains, unchanged and in its original order.
C6_ResetUserScoped ==
    [][lastOp'.op = "reset_user_counts"
       => LedgerRows(csv') = WithoutUser(LedgerRows(csv), lastOp'.g, lastOp'.u)]_vars

\* a reset has removed a row and left a row of the same user in another guild
\* and a row of another user in the same guild
C6_Witness ==
    /\ lastOp.op = "reset_user_counts"
    /\ lastOp.before > Len(csv.data)
    /\ Len(csv.data) = 2
    /\ \E i \in 1..Len(csv.data) :
          csv.data[i][1] # str(lastOp.g) /\ csv.data[i][3] = str(lastOp.u)
    /\ \E i \in 1..Len(csv.data) :
          csv.data[i][1] = str(lastOp.g) /\ csv.data[i][3] # str(lastOp.u)

\* the indices of the rows of guild g and role r pinged by user id uid
RoleUserRows(rs, g, r, uid) ==
    {i \in 1..Len(rs) : /\ rs[i]["guild_id"] = str(g)
                        /\ rs[i]["role_id"] = str(r)
                        /\ rs[i]["user_id"] = uid}

\* the indices of the rows of guild g and user u that ping role id rid
UserRoleRows(rs, g, u, rid) ==
    {i \in 1..Len(rs) : /\ rs[i]["guild_id"] = str(g)
                        /\ rs[i]["user_id"] = str(u)
                        /\ rs[i]["role_id"] = rid}

Min(S) == CHOOSE x \in S : \A y \in S : x <= y

\* C7: get_top_for_role(g, r, limit) returns at most limit (user_id, count)
\* pairs, count being the number of rows of that guild, role and user; counts
\* do not increase along the result, users with equal counts are in the order
\* of their first matching row, and no omitted user has a larger count than a
\* returned one.
C7_TopForRole ==
    lastOp.op = "get_top_for_role" =>
        LET rs == LedgerRows(csv)
            cnt(uid) == Cardinality(RoleUserRows(rs, lastOp.g, lastOp.r, uid))
            first(uid) == Min(RoleUserRows(rs, lastOp.g, lastOp.r, uid))
            returned == {ret[i][1] : i \in 1..Len(ret)}
            users == {rs[i]["user_id"] : i \in 1..Len(rs)}
        IN  /\ Len(ret) <= lastOp.n
            /\ \A i \in 1..Len(ret) : ret[i][2] = cnt(ret[i][1]) /\ ret[i][2] > 0
            /\ \A i, j \in 1..Len(ret) :
                  i < j => /\ ret[i][1] # ret[j][1]
                           /\ ret[i][2] >= ret[j][2]
                           /\ ret[i][2] = ret[j][2]
                                 => first(ret[i][1]) < first(ret[j][1])
            /\ \A uid \in users \ returned :
                  \A i \in 1..Len(ret) : cnt(uid) <= ret[i][2]

\* a query with limit 1 has returned the first of two users with equal counts
C7_Witness ==
    /\ lastOp.op = "get_top_for_role"
    /\ lastOp.n = 1
    /\ Len(ret) = 1
    /\ \E i \in 1..Len(csv.data) :
          /\ csv.data[i][1] = str(lastOp.g)
          /\ csv.data[i][2] = str(lastOp.r)
          /\ csv.data[i][3] # ret[1][1]
          /\ Cardinality(RoleUserRows(LedgerRows(csv), lastOp.g, lastOp.r,
                                      csv.data[i][3])) = ret[1][2]

\* C8: get_counts_for_user(g, u) returns one (role_id, count) pair for every
\* distinct role user u has pinged in guild g, count being the number of
\* matching rows, in non-increasing count order.
C8_CountsForUser ==
    lastOp.op = "get_counts_for_user" =>
        LET rs == LedgerRows(csv)
            cnt(rid) == Cardinality(UserRoleRows(rs, lastOp.g, lastOp.u, rid))
            roles == {rs[i]["role_id"] : i \in 1..Len(rs)}
        IN  /\ {ret[i][1] : i \in 1..Len(ret)} = {rid \in roles : cnt(rid) > 0}
            /\ Len(ret) = Cardinality({rid \in roles : cnt(rid) > 0})
            /\ \A i \in 1..Len(ret) : ret[i][2] = cnt(ret[i][1])
            /\ \A i, j \in 1..Len(ret) : i < j => ret[i][2] >= ret[j][2]

\* the query has returned two roles, the second one pinged first but less
C8_Witness ==
    /\ lastOp.op = "get_counts_for_user"
    /\ Len(ret) = 2
    /\ ret[1][2] > ret[2][2]
    /\ csv.data[1][2] = ret[2][1]

\* C9: ensure_csv_exists on an absent or zero-length ledger leaves the header
\* and no data row; on a ledger with content, and when called again, it
\* changes nothing.
C9_EnsureIdempotent ==
    [][lastOp'.op = "ensure_csv_exists"
       => /\ (~csv.exists \/ (csv.header = <<>> /\ csv.data = <<>>))
                => csv' = [exists |-> TRUE,
                           header |-> <<"guild_id", "role_id", "user_id",
                                        "channel_id", "timestamp">>,
                           data |-> <<>>]
          /\ (csv.exists /\ (csv.header # <<>> \/ csv.data # <<>>))
                => csv' = csv
          /\ lastOp.op = "ensure_csv_exists" => csv' = csv]_vars

\* ensure_csv_exists has run on a ledger with data rows and left them
C9_Witness ==
    /\ lastOp.op = "ensure_csv_exists"
    /\ lastOp.before = Len(csv.data)
    /\ Len(csv.data) >= 2
    /\ csv.header # <<>>

\* C10: the number of data rows grows only in an append_ping step, by one,
\* and shrinks only in a cleanup or reset step; ensure_csv_exists and the
\* reads and queries leave the rows unchanged.
C10_RowCountMonotone ==
    [][/\ Len(csv'.data) > Len(csv.data)
            => /\ lastOp'.op = "append_ping"
               /\ Len(csv'.data) = Len(csv.data) + 1
       /\ Len(csv'.data) < Len(csv.data)
            => lastOp'.op \in {"cleanup_old_entries", "reset_role_counts",
                               "reset_user_counts"}
       /\ lastOp'.op \in {"ensure_csv_exists", "read_all_pings",
                          "get_top_for_role", "get_counts_for_user"}
            => csv'.data = csv.data]_vars

\* an append has added the third row of a ledger
C10_Witness ==
    /\ lastOp.op = "append_ping"
    /\ lastOp.before = 2
    /\ Len(csv.data) = 3

\* a message written by a person in a guild
FromGuildMember(m) == ~m.bot /\ m.guild # NoGuild

\* the rows new has after the rows of old
Appended(old, new) ==
    IF Len(new) >= Len(old) /\ SubSeq(new, 1, Len(old)) = old
    THEN SubSeq(new, Len(old) + 1, Len(new))
    ELSE <<[guild_id |-> "lost"]>>

\* C11: on_message adds exactly one row (guild, author, channel, current
\* time) to the message-activity ledger for a message whose author is not a
\* bot and which was sent in a guild, the ledger being writable; for a bot's
\* message or a direct message it changes no ledger and no store
C11_OneActivityEventPerGuildMessage ==
    [][lastOp'.op = "on_message" =>
        LET m == lastOp'.m
            added == Appended(LedgerRows(act), LedgerRows(act'))
        IN  IF FromGuildMember(m)
            THEN \/ lastOp'.actFails
                 \/ /\ Len(added) = 1
                    /\ added[1]["guild_id"] = str(m.guild)
                    /\ added[1]["user_id"] = str(m.author)
                    /\ added[1]["channel_id"] = str(m.channel)
                    /\ RowParses(added[1])
                    /\ NormalizedUtc(added[1]["timestamp"]) = now
            ELSE act' = act /\ csv' = csv /\ rx' = rx]_vars

C11_Witness ==
    /\ lastOp.op = "on_message"
    /\ FromGuildMember(lastOp.m)
    /\ ~lastOp.actFails
    /\ Len(act.data) = 2
    /\ act.data[2][2] = str(lastOp.m.author)

\* the mentions of a message whose role is mentionable, in order
MentionableMentions(m) ==
    SelectSeq(m.role_mentions, LAMBDA role : role.mentionable)

\* C12: for a recorded message, both ledgers being writable, on_message adds
\* one ping row per role mention whose role is mentionable, in mention
\* order, each with the guild, that role, the author and the channel; a
\* mention of a role that is not mentionable adds no row
C12_OnePingPerMentionableMention ==
    [][(/\ lastOp'.op = "on_message"
        /\ FromGuildMember(lastOp'.m)
        /\ ~lastOp'.actFails
        /\ ~lastOp'.csvFails) =>
        LET m == lastOp'.m
            want == MentionableMentions(m)
            added == Appended(LedgerRows(csv), LedgerRows(csv'))
        IN  /\ Len(added) = Len(want)
            /\ \A i \in 1..Len(want) :
                  /\ added[i]["guild_id"] = str(m.guild)
                  /\ added[i]["role_id"] = str(want[i].id)
                  /\ added[i]["user_id"] = str(m.author)
                  /\ added[i]["channel_id"] = str(m.channel)
                  /\ NormalizedUtc(added[i]["timestamp"]) = now]_vars

C12_Witness ==
    /\ lastOp.op = "on_message"
    /\ FromGuildMember(lastOp.m)
    /\ ~lastOp.actFails
    /\ ~lastOp.csvFails
    /\ Len(lastOp.m.role_mentions) = 2
    /\ Len(MentionableMentions(lastOp.m)) = 1
    /\ Len(csv.data) = 2
    /\ csv.data[2][2] = str(10)

\* the message carries a spoiler: an attachment whose file name begins with
\* SPOILER_, or || in its text
CarriesSpoiler(m) ==
    \/ \E i \in 1..Len(m.attachments) : m.attachments[i][1] = "SPOILER_"
    \/ "||" \in Range(m.content)

\* C13: on_reaction_add appends exactly one entry (message id, reactor id,
\* emoji text) to the store of the message's guild when the reactor is not
\* a bot, the message is in a guild and the message carries a spoiler, the
\* store being writable; in every other case no store changes
C13_ReactionRecordedIffSpoiler ==
    [][lastOp'.op = "on_reaction_add" =>
        LET e == lastOp'.e
            g == e.message.guild
        IN  IF /\ ~e.bot
               /\ g # NoGuild
               /\ CarriesSpoiler(e.message)
               /\ ~lastOp'.rxFails
            THEN /\ rx'[g].exists
                 /\ Len(rx'[g].reactions) = Len(rx[g].reactions) + 1
                 /\ SubSeq(rx'[g].reactions, 1, Len(rx[g].reactions))
                        = rx[g].reactions
                 /\ LET entry == rx'[g].reactions[Len(rx'[g].reactions)]
                    IN  /\ entry.message_id = str(e.message.id)
                        /\ entry.user_id = str(e.user)
                        /\ entry.emoji = EmojiStr(e.emoji)
                 /\ \A h \in GuildIds \ {g} : rx'[h] = rx[h]
            ELSE rx' = rx]_vars

C13_Witness ==
    /\ lastOp.op = "on_reaction_add"
    /\ ~lastOp.e.bot
    /\ lastOp.e.message.guild = 2
    /\ ~lastOp.rxFails
    /\ Len(rx[2].reactions) = 2
    /\ rx[2].reactions[2].emoji = "<:party:30>"
    /\ Len(rx[1].reactions) = 1

\* the number of entries of the home guild's store made by user u
ReactionCount(u) ==
    Cardinality({k \in 1..Len(rx[HomeGuild].reactions) :
                    rx[HomeGuild].reactions[k].user_id = str(u)})

RECURSIVE SumReactionCounts(_)
SumReactionCounts(S) ==
    IF S = {} THEN 0
    ELSE LET u == CHOOSE x \in S : TRUE
         IN  ReactionCount(u) + SumReactionCounts(S \ {u})

\* the members of the home guild that hold the role
Holders(rid) ==
    {u \in Range(guild.members) : rid \in guild.member_roles[u]}

\* C14: in the ranking reactionstats shows, the total of every role equals
\* the sum of the full reaction counts of the users who are members of the
\* guild and hold the role
C14_RoleTotalIsSumOverHolders ==
    (lastOp.op = "reactionstats" /\ ret.embed) =>
        \A i \in 1..Len(ret.ranking) :
            ret.ranking[i][2]
                = SumReactionCounts(Holders(int(ret.ranking[i][1])))

\* C15: the ranking reactionstats shows is in order of total, largest
\* first, and holds exactly the configured roles that still exist in the
\* guild: a configured id of a deleted role is left out
C15_RankingSortedStaleOmitted ==
    (lastOp.op = "reactionstats" /\ ret.embed) =>
        /\ \A i, j \in 1..Len(ret.ranking) :
              i < j => ret.ranking[i][2] >= ret.ranking[j][2]
        /\ {int(ret.ranking[i][1]) : i \in 1..Len(ret.ranking)}
              = {int(rid) : rid \in Range(load_reaction_config(cfg[HomeGuild]))}
                    \cap guild.roles
        /\ \A i, j \in 1..Len(ret.ranking) :
              i # j => ret.ranking[i][1] # ret.ranking[j][1]

C15_Witness ==
    /\ lastOp.op = "reactionstats"
    /\ ret.embed
    /\ cfg[HomeGuild].rank_roles = <<str(30), str(20), str(10)>>
    /\ 30 \notin guild.roles
    /\ Len(ret.ranking) = 2
    /\ ret.ranking[1][1] = str(10)
    /\ ret.ranking[1][2] > ret.ranking[2][2]
    /\ ret.ranking[2][2] > 0

\* the rows of the guild in ledger f that parse and are stamped at or after
\* the time t minus days, and before t when the window is closed at t
RowsSince(f, g, days, t, closed) ==
    {i \in 1..Len(LedgerRows(f)) :
        LET row == LedgerRows(f)[i]
        IN  /\ row["guild_id"] = str(g)
            /\ RowParses(row)
            /\ NormalizedUtc(row["timestamp"]) >= t - days * HoursPerDay
            /\ closed => NormalizedUtc(row["timestamp"]) < t}

\* those of them whose field has the value
RowsSinceOf(f, g, days, t, closed, field, value) ==
    {i \in RowsSince(f, g, days, t, closed) :
        LedgerRows(f)[i][field] = value}

RECURSIVE SumHours(_, _)
SumHours(histogram, h) ==
    IF h < 0 THEN 0 ELSE histogram[h] + SumHours(histogram, h - 1)

\* C16: the windowed aggregations activity_hours, activity_user and the
\* message and ping totals of activity_overview, when they complete, count
\* exactly the guild's rows stamped at or after now - days: a row exactly at
\* now - days is counted, a row one hour older is not
C16_InclusiveLowerBound ==
    /\ (lastOp.op = "activity_hours" /\ ret.status # "raised") =>
          LET n == Cardinality(RowsSince(act, HomeGuild, lastOp.days, now,
                                         FALSE))
          IN  IF ret.status = "ok"
              THEN SumHours(ret.value, HoursPerDay - 1) = n
              ELSE n = 0
    /\ (lastOp.op = "activity_user" /\ ret.status # "raised") =>
          IF ret.status = "ok"
          THEN \A u \in {100, 200} :
                  LET n == Cardinality(RowsSinceOf(act, HomeGuild, lastOp.days,
                                           now, FALSE, "user_id", str(u)))
                  IN  IF n = 0
                      THEN \A i \in 1..Len(ret.value) : ret.value[i][1] # str(u)
                      ELSE \E i \in 1..Len(ret.value) :
                              ret.value[i] = <<str(u), n>>
          ELSE RowsSince(act, HomeGuild, lastOp.days, now, FALSE) = {}
    /\ (lastOp.op = "activity_overview" /\ ret.status = "ok") =>
          /\ ret.value.messages_7d = Cardinality(
                 RowsSince(act, HomeGuild, ShortWindow, now, FALSE))
          /\ ret.value.messages_30d = Cardinality(
                 RowsSince(act, HomeGuild, LongWindow, now, FALSE))
          /\ ret.value.pings_7d = Cardinality(
                 RowsSince(csv, HomeGuild, ShortWindow, now, FALSE))
          /\ ret.value.pings_30d = Cardinality(
                 RowsSince(csv, HomeGuild, LongWindow, now, FALSE))

C16_Witness ==
    /\ lastOp.op = "activity_user"
    /\ lastOp.days = ShortWindow
    /\ now = 1
    /\ Len(act.data) = 2
    /\ NormalizedUtc(act.data[1][4]) = now - ShortWindow * HoursPerDay
    /\ NormalizedUtc(act.data[2][4]) = now - ShortWindow * HoursPerDay - 1
    /\ ret = Embed(<< <<str(100), 1>> >>)

\* the guild's rows of ledger f stamped in [t - days, t) that have the value
\* in the field
InHalfOpenWindow(f, days, t, field, value) ==
    Cardinality(RowsSinceOf(f, HomeGuild, days, t, TRUE, field, value))

\* C17: a windowed aggregation (hours, channels, users, distribution,
\* role-gated, ping ratio) counts a row only if its normalized time t
\* satisfies now - days <= t < now, so none of its counts exceeds the number
\* of the guild's rows in that half-open window; a row stamped at or after
\* the time of the query is not counted
C17_HalfOpenWindow ==
    /\ (lastOp.op = "activity_hours" /\ ret.status = "ok") =>
          SumHours(ret.value, HoursPerDay - 1) <= Cardinality(
              RowsSince(act, HomeGuild, lastOp.days, now, TRUE))
    /\ (lastOp.op = "activity_channels" /\ ret.status = "ok") =>
          \A i \in 1..Len(ret.value) :
              ret.value[i][2] <= InHalfOpenWindow(act, lastOp.days, now,
                                     "channel_id", ret.value[i][1])
    /\ (lastOp.op \in {"activity_user", "activity_user_role"}
            /\ ret.status = "ok") =>
          \A i \in 1..Len(ret.value) :
              ret.value[i][2] <= InHalfOpenWindow(act, lastOp.days, now,
                                     "user_id", ret.value[i][1])
    /\ (lastOp.op = "activity_user_distribution" /\ ret.status = "ok") =>
          ret.value.total_messages <= Cardinality(
              RowsSince(act, HomeGuild, lastOp.days, now, TRUE))
    /\ (lastOp.op = "activity_user_ping_ratio" /\ ret.status = "ok") =>
          \A p \in ret.value :
              /\ p[2] <= InHalfOpenWindow(act, lastOp.days, now,
                             "user_id", p[1])
              /\ p[3] <= InHalfOpenWindow(csv, lastOp.days, now,
                             "user_id", p[1])

\* the window-based aggregations
WindowCommands ==
    {"activity_hours", "activity_channels", "activity_channel_heatmap",
     "activity_user", "activity_user_distribution", "activity_user_role",
     "activity_inactive", "activity_user_ping_ratio"}

\* C18: a window-based aggregation never ends with an exception because of
\* a row whose timestamp does not parse: the row is skipped and the command
\* answers
C18_UnparsableRowSkipped ==
    lastOp.op \in WindowCommands => ret.status # "raised"

\* the operations that run the retention
RetentionRuns == {"on_ready", "daily_cleanup", "cleanup"}

\* no row of the ledger that parses is older than the horizon
NoneExpired(f, days) ==
    \A i \in 1..Len(LedgerRows(f)) :
        RowParses(LedgerRows(f)[i]) =>
            NormalizedUtc(LedgerRows(f)[i]["timestamp"])
                >= now - days * HoursPerDay

\* C19: after a retention run with horizon H neither the role-ping ledger
\* nor the message-activity ledger holds a row that parses and is older than
\* now - H
C19_NoExpiredRecordAfterRetention ==
    lastOp.op \in RetentionRuns =>
        NoneExpired(csv, lastOp.days) /\ NoneExpired(act, lastOp.days)

\* C20: when a ledger cannot be written during on_message, the handler does
\* not raise, the ledger that failed keeps its content, and the appends to
\* the other ledger are still made
C20_IngestionFailureSwallowed ==
    [][(lastOp'.op = "on_message" /\ FromGuildMember(lastOp'.m)) =>
        /\ ~lastOp'.raised
        /\ lastOp'.actFails => act' = act
        /\ lastOp'.csvFails => csv' = csv
        /\ ~lastOp'.csvFails =>
              Len(Appended(LedgerRows(csv), LedgerRows(csv')))
                  = Len(MentionableMentions(lastOp'.m))
        /\ ~lastOp'.actFails =>
              Len(Appended(LedgerRows(act), LedgerRows(act'))) = 1]_vars

\* the filter of the rewrite a handler is carrying out matches the row: the
\* guild and role or user of a reset, the age of a cleanup
FrameMatches(fr, row, t) ==
    IF fr.handler = "resetcounts"
    THEN row["guild_id"] = str(fr.g) /\ row["role_id"] = str(fr.k)
    ELSE IF fr.handler = "resetmycounts"
    THEN row["guild_id"] = str(fr.g) /\ row["user_id"] = str(fr.k)
    ELSE NormalizedUtc(row["timestamp"]) < t - fr.days * HoursPerDay

\* C21: in every interleaving of the handlers on the event loop, a rewrite
\* of the role-ping ledger by a reset or a cleanup loses no row that is in
\* the file when it writes, whether it was there at the read or appended
\* since: the rows with a readable timestamp that its filter does not
\* match are in the file afterwards, in their order.
C21_NoAppendLostToRewrite ==
    [][lastOp'.op = "write" =>
         SelectSeq(LedgerRows(csv),
                   LAMBDA row : RowParses(row)
                                /\ ~FrameMatches(lastOp'.frame, row, now))
           = SelectSeq(LedgerRows(csv'), RowParses)]_vars

\* a reset has written while the cleanup command was at its await, and a row
\* appended by on_message before the reset read is still in the ledger
C21_Witness ==
    /\ lastOp.op = "write"
    /\ lastOp.frame.handler = "resetcounts"
    /\ "cleanup" \in hist
    /\ \E i \in 1..Len(csv.data) : csv.data[i][5] = isoformat(now)

\* the rows of the ledger that are younger than the default horizon
YoungRows(f, t) ==
    SelectSeq(LedgerRows(f),
              LAMBDA row : RowParses(row)
                           /\ NormalizedUtc(row["timestamp"])
                                >= t - CLEANUP_DAYS * HoursPerDay)

\* C22: the cleanup command called with days zero or negative removes no
\* record younger than the default horizon of 30 days: it is refused or
\* runs with the default.
C22_NonPositiveDaysKeepsYoungRecords ==
    [][(lastOp'.op = "cleanup" /\ lastOp'.arg <= 0) =>
           YoungRows(csv', now) = YoungRows(csv, now)]_vars

\* C23: reaction_reset in guild G leaves G's reaction store reading as
\* empty (a load of it returns no reaction and does not fail) and leaves
\* the stores of the other guilds, the rank-role configs and both CSV
\* ledgers as they were.
C23_ReactionResetEmptiesOneStore ==
    [][lastOp'.op = "reaction_reset" =>
           /\ load_reaction_stats(rx'[lastOp'.g]).exists
           /\ load_reaction_stats(rx'[lastOp'.g]).reactions = <<>>
           /\ \A g \in GuildIds \ {lastOp'.g} : rx'[g] = rx[g]
           /\ cfg' = cfg
           /\ csv' = csv
           /\ act' = act]_vars

\* the home guild's store held reactions and was reset while the second
\* guild's store holds one and rank roles are configured
C23_Witness ==
    /\ lastOp.op = "reaction_reset"
    /\ lastOp.g = HomeGuild
    /\ lastOp.had > 0
    /\ rx[HomeGuild] = AbsentStore
    /\ \E g \in GuildIds \ {HomeGuild} : Len(rx[g].reactions) > 0
    /\ cfg[HomeGuild].exists

\* the reactions of a store whose normalized timestamp is not older than
\* days before t
FreshReactions(s, days, t) ==
    SelectSeq(s.reactions,
              LAMBDA r : NormalizedUtc(r.timestamp) >= t - days * HoursPerDay)

\* C26: a reaction cleanup that finds no expired record does not rewrite
\* the guild's store and reports 0 removed and the unchanged number of
\* records remaining; one that finds expired records keeps exactly the
\* records whose normalized timestamp is >= now - days and reports
\* removed = before - after.
C26_ReactionCleanupNoOpSkipsRewrite ==
    [][lastOp'.op = "reaction_cleanup" =>
           LET s == rx[lastOp'.g]
               fresh == FreshReactions(s, lastOp'.days, now)
           IN  /\ rx'[lastOp'.g].reactions = fresh
               /\ ret'.reply = <<Len(s.reactions) - Len(fresh), Len(fresh)>>
               /\ fresh = s.reactions => ~ret'.saved]_vars

\* C24: when no row of the ledger has a parsable timestamp older than the
\* cutoff, cleanup_old_entries writes nothing: the file, with every row and
\* the order of the rows, is after the call what it was before; and a
\* ledger file that does not exist is not created.
C24_NothingExpiredNothingWritten ==
    [][(lastOp'.op = "cleanup_old_entries"
        /\ ~\E i \in 1..Len(LedgerRows(csv)) :
              /\ RowParses(LedgerRows(csv)[i])
              /\ NormalizedUtc(LedgerRows(csv)[i]["timestamp"])
                   < now - lastOp'.n * HoursPerDay)
       => csv' = csv]_vars

\* a cleanup found nothing expired in a ledger of two rows, one of them with
\* an unreadable timestamp, and both rows are still there
C24_Witness ==
    /\ lastOp.op = "cleanup_old_entries"
    /\ ret = 0
    /\ lastOp.before = 2
    /\ Len(csv.data) = 2
    /\ \E i \in 1..2 : ~csv.data[i][5].valid
    /\ \E i \in 1..2 : csv.data[i][5].valid

\* C25: whenever cleanup_old_entries rewrites the ledger, the removed count
\* it reports is the number of data rows before the call minus the number
\* of data rows after it.
C25_RemovedIsBeforeMinusAfter ==
    [][(lastOp'.op = "cleanup_old_entries" /\ ret' > 0)
       => ret' = Len(csv.data) - Len(csv'.data)]_vars

\* the users with a row among the rows numbered by I of ledger f
UsersOf(f, I) == {LedgerRows(f)[i]["user_id"] : i \in I}

\* the most rows numbered by I that k of the users can have between them:
\* the sum of the k largest per-user counts
TopSum(f, I, k) ==
    Max({Cardinality({i \in I : LedgerRows(f)[i]["user_id"] \in S}) :
            S \in {T \in SUBSET UsersOf(f, I) : Cardinality(T) = k}})

\* max(1, ceil(n * p)), p given in percent
CeilIndex(n, percent) ==
    IF (n * percent + 99) \div 100 < 1 THEN 1
    ELSE (n * percent + 99) \div 100

\* C27: the distribution share for the top fraction p of 10, 25 and 50
\* percent over the n users active in the window sums the max(1, ceil(n * p))
\* largest per-user counts and divides by the number of in-window messages.
C27_ShareOfTopCeil ==
    (lastOp.op = "activity_user_distribution" /\ ret.status = "ok") =>
        LET I == RowsSince(act, HomeGuild, lastOp.days, now, FALSE)
            n == Cardinality(UsersOf(act, I))
        IN  /\ ret.value.total_users = n
            /\ ret.value.top_10 = <<TopSum(act, I, CeilIndex(n, 10)),
                                    Cardinality(I)>>
            /\ ret.value.top_25 = <<TopSum(act, I, CeilIndex(n, 25)),
                                    Cardinality(I)>>
            /\ ret.value.top_50 = <<TopSum(act, I, CeilIndex(n, 50)),
                                    Cardinality(I)>>

\* the normalized times of the rows of user u of the guild in ledger f
TimesOf(f, g, u) ==
    {NormalizedUtc(LedgerRows(f)[i]["timestamp"]) :
        i \in {j \in 1..Len(LedgerRows(f)) :
                  /\ LedgerRows(f)[j]["guild_id"] = str(g)
                  /\ LedgerRows(f)[j]["user_id"] = str(u)}}

\* C29: activity_inactive, when it completes, lists a member of the guild
\* that is not a bot as inactive exactly when the member has no row in the
\* message ledger for the guild or the latest of the member's rows is
\* strictly older than now - days; the list is in ascending order of the
\* latest row, the members never seen before every member seen.
C29_InactiveIffNoRecentRecord ==
    (lastOp.op = "activity_inactive" /\ ret.status # "raised") =>
        LET inactive ==
                {u \in Range(guild.members) \ guild.bots :
                    \/ TimesOf(act, HomeGuild, u) = {}
                    \/ Max(TimesOf(act, HomeGuild, u))
                         < now - lastOp.days * HoursPerDay}
        IN  IF ret.status = "ok"
            THEN LET listed == ret.inactive_users
                 IN  /\ {listed[i][1] : i \in 1..Len(listed)} = inactive
                     /\ Len(listed) = Cardinality(inactive)
                     /\ \A i \in 1..Len(listed) : \A j \in (i + 1)..Len(listed) :
                           \/ TimesOf(act, HomeGuild, listed[i][1]) = {}
                           \/ /\ TimesOf(act, HomeGuild, listed[j][1]) # {}
                              /\ Max(TimesOf(act, HomeGuild, listed[i][1]))
                                   <= Max(TimesOf(act, HomeGuild,
                                                  listed[j][1]))
            ELSE inactive = {}

\* the member listed second was last seen 30 days ago and stands first in
\* the guild; the member listed first was never seen
C29_Witness ==
    /\ lastOp.op = "activity_inactive"
    /\ ret.status = "ok"
    /\ Len(ret.inactive_users) = 2
    /\ ret.inactive_users[1][1] = guild.members[2]
    /\ ret.inactive_users[2][1] = guild.members[1]
    /\ TimesOf(act, HomeGuild, guild.members[2]) = {}
    /\ TimesOf(act, HomeGuild, guild.members[1]) # {}

\* C28: the ping-ratio rows, when the command completes, are one row for
\* each user with a message row or a ping row of the guild in the window
\* and for no one else, with the user's in-window message and ping counts,
\* of which the ratio is pings / (pings + messages); the rows are in
\* non-increasing order of that ratio, so a user with pings only (ratio 1)
\* stands before every user with a message.
C28_PingRatioRows ==
    (lastOp.op = "activity_user_ping_ratio" /\ ret.status # "raised") =>
        LET users ==
                UsersOf(act, RowsSince(act, HomeGuild, lastOp.days, now, FALSE))
                  \cup UsersOf(csv, RowsSince(csv, HomeGuild, lastOp.days,
                                              now, FALSE))
        IN  IF ret.status = "ok"
            THEN /\ {ret.rows[i][1] : i \in 1..Len(ret.rows)} = users
                 /\ Len(ret.rows) = Cardinality(users)
                 /\ \A i \in 1..Len(ret.rows) :
                       /\ ret.rows[i][2] = Cardinality(
                              RowsSinceOf(act, HomeGuild, lastOp.days, now,
                                          FALSE, "user_id", ret.rows[i][1]))
                       /\ ret.rows[i][3] = Cardinality(
                              RowsSinceOf(csv, HomeGuild, lastOp.days, now,
                                          FALSE, "user_id", ret.rows[i][1]))
                       /\ ret.rows[i][2] + ret.rows[i][3] > 0
                 /\ \A i \in 1..Len(ret.rows) : \A j \in (i + 1)..Len(ret.rows) :
                       ret.rows[i][3] * (ret.rows[j][2] + ret.rows[j][3])
                         >= ret.rows[j][3] * (ret.rows[i][2] + ret.rows[i][3])
            ELSE users = {}

\* a user with one ping and no message stands before three users with one
\* message and no ping, who stand in an order other than that of the ledger
C28_Witness ==
    /\ lastOp.op = "activity_user_ping_ratio"
    /\ ret.status = "ok"
    /\ Len(ret.rows) = 4
    /\ ret.rows[1][2] = 0
    /\ ret.rows[1][3] = 1
    /\ \A i \in 2..4 : ret.rows[i][2] = 1 /\ ret.rows[i][3] = 0
    /\ ret.rows[2][1] = act.data[3][2]

\* C30: the hour-of-day histogram of a guild over the last N days has the
\* 24 buckets 0..23; bucket h holds the number of the guild's rows in the
\* window whose UTC hour is h, the hours without rows holding zero, and the
\* buckets add up to the number of the guild's rows in the window.
C30_HourHistogram ==
    (lastOp.op = "activity_hours" /\ ret.status # "raised") =>
        LET I == RowsSince(act, HomeGuild, lastOp.days, now, FALSE)
        IN  IF ret.status = "ok"
            THEN /\ DOMAIN ret.value = 0..23
                 /\ \A h \in 0..23 :
                       ret.value[h] = Cardinality(
                           {i \in I :
                               NormalizedUtc(LedgerRows(act)[i]["timestamp"])
                                 % HoursPerDay = h})
                 /\ SumHours(ret.value, 23) = Cardinality(I)
            ELSE I = {}

\* a row stamped in another zone is counted at its UTC hour, 01:00, not at
\* its local hour, 00:00, which holds zero
C30_Witness ==
    /\ lastOp.op = "activity_hours"
    /\ ret.status = "ok"
    /\ \E i \in 1..Len(act.data) :
          /\ act.data[i][4].valid
          /\ act.data[i][4].off # 0
          /\ act.data[i][4].local % HoursPerDay = 0
    /\ ret.value[1] = 1
    /\ ret.value[0] = 0
    /\ \A h \in 2..23 : ret.value[h] = 0

====
